---- MODULE Spec2Model ----
(***************************************************************************)
(* A model of the NetCDF CF reader of TECA (src/io/teca_cf_writer.cxx):    *)
(* the handle cache of teca_cf_reader_internals, the metadata phase        *)
(* (teca_cf_reader::get_output_metadata) with its thread-parallel read of  *)
(* the time axis and its MPI broadcast, set_modified, and the execute      *)
(* phase's step-to-file scan and handle use.                               *)
(***************************************************************************)
EXTENDS Integers, Sequences, FiniteSets, TLC

\* ------------------------------------------------------------------ bounds
\* the number of files the enumeration may find
MaxFiles == 2
\* the longest time axis one file may hold
MaxSteps == 1
\* the number of peers of the parallel process group
MaxRanks == 2
\* the worker pool's size, and the number of client threads of the cache
NumThreads == 2
\* the per-process limit on open files: nc_open fails beyond it
MaxOpenFiles == 3
\* the largest time step a request may name beyond the last one
MaxOver == 2
\* the most arrays a request names
MaxArrays == 2

VARIABLES
    is_init,        \* MPI_Initialized
    n_ranks,        \* MPI_Comm_size, 1 without MPI
    cfg,            \* per rank: the reader's properties
    metadata,       \* per rank: internals->metadata, a map from key to value
    handles,        \* per rank: internals->handles, file -> (mutex, handle)
    handle_mutex,   \* per rank: the owner of internals->handle_mutex, 0 if free
    file_mutex,     \* per rank: the owner of each file's mutex, 0 if free
    open_files,     \* per rank: the library's open files, {[fd, file, by]}
    pc,             \* per rank: the main thread's place in get_output_metadata
    ret,            \* per rank: what the last get_output_metadata returned
    prev,           \* per rank: what the call before the last returned
    io,             \* per rank: whether the current call touched the file system
    how,            \* per rank: how the last call ended
    bcasts,         \* per rank: the broadcasts the current call took part in
    env,            \* the file system as the current configuration sees it
    files,          \* get_output_metadata's local: the enumerated files
    queue,          \* the thread pool's queue of task ids
    tmp,            \* the results in the order the tasks completed
    thr,            \* per thread: its place, operation and locals
    opened,         \* per file: the opens since the file's last release,
                    \* and whether one of them failed
    closed,         \* per rank: the handles the last clear_handles closed
    sc_in,          \* the step-to-file scan's input: step_count, time_step
    sc_out,         \* the scan's result: idx, offs
    att             \* a character attribute: its buffer and the text kept

vars == <<is_init, n_ranks, cfg, metadata, handles, handle_mutex, file_mutex,
          open_files, pc, ret, prev, io, how, bcasts, env, files, queue, tmp,
          thr, opened, closed, sc_in, sc_out, att>>

\* ------------------------------------------------------------- data model
AllRanks == 0 .. (MaxRanks - 1)
Ranks == 0 .. (n_ranks - 1)
Threads == 1 .. NumThreads
\* file basenames, in sorted order
FileNames == [i \in 1 .. MaxFiles |-> i]
AllFiles == {FileNames[i] : i \in 1 .. MaxFiles}

\* teca_metadata: a map from key to value; the empty bag tests false
EmptyMd == [k \in {} |-> 0]
Insert(md, k, v) == (k :> v) @@ md
Has(md, k) == k \in DOMAIN md

\* p_teca_variant_array: a shared pointer, null or an array
NullArray == [null |-> TRUE, data |-> <<>>]
Array(s) == [null |-> FALSE, data |-> s]
\* the time coordinate held by file f when its axis has len elements
TimeOf(f, len) == [k \in 1 .. len |-> <<f, k>>]

RECURSIVE Sum(_)
Sum(s) == IF s = <<>> THEN 0 ELSE Head(s) + Sum(Tail(s))

\* handle_map_elem_t: (unique_ptr<mutex>, netcdf_handle*), 0 for a null pointer
NewEntry == [mutex |-> 1, handle |-> 0]
NoHandles == [f \in {} |-> NewEntry]

\* the root of the broadcast and the only rank that parses the dataset
RootRank == n_ranks - 1

\* ------------------------------------------------- the library's open files
FdsOf(p) == {o.fd : o \in open_files[p]}
\* nc_open hands out the smallest id not in use
FreshFd(p) == CHOOSE n \in 1 .. (MaxOpenFiles + 1) :
                  /\ n \notin FdsOf(p)
                  /\ \A m \in 1 .. (n - 1) : m \in FdsOf(p)
CanOpen(p) == Cardinality(open_files[p]) < MaxOpenFiles
nc_open(p, f, by) ==
    open_files[p] \cup {[fd |-> FreshFd(p), file |-> f, by |-> by]}
\* (a variant that leaves the file open)
nc_close_none(p, h) == open_files[p]
\* netcdf_handle::close: nc_close unless the handle is 0
nc_close(p, h) == {o \in open_files[p] : o.fd # h}

\* ------------------------------------------------------------ handle cache
\* clear_handles: delete every handle (closing it) and wipe the map
HandlesOf(p) == {handles[p][f].handle : f \in DOMAIN handles[p]} \ {0}
\* (a variant that closes no file)
ClosedNone(p) == open_files[p]
ClosedAll(p) == {o \in open_files[p] : o.fd \notin HandlesOf(p)}
clear_handles_map == NoHandles

\* (a variant that leaves the map without entries)
initialize_no_handles(fs) == NoHandles
\* initialize_handles: clear, then one entry per file, a new mutex, no handle
initialize_handles(fs) == [f \in {fs[i] : i \in DOMAIN fs} |-> NewEntry]


\* --------------------------------------------------------- the file system
\* What the file system answers is not known before it is asked, and it
\* answers the same until the configuration changes: -1 is "not asked yet".
NotAsked == [locate |-> -1, open |-> -1, schema |-> -1, axes |-> -1]
Observe(site, answers) == IF env[site] = -1 THEN answers ELSE {env[site]}
Noted(site, a) == [env EXCEPT ![site] = a]

\* the files of the data set: the dimensions lon, ilon and lat, the variables
\* lon(lon), lat(lat), time(time), tas(time, lat, lon) of a floating point
\* type, ilon(ilon) of an integer type and flag(time, lat, lon) of a type
\* NC_DISPATCH has no case for
FileDims == [lon |-> 2, ilon |-> 2, lat |-> 2]
FileVars == << [name |-> "lon", dim_names |-> <<"lon">>, type |-> "NC_FLOAT"],
               [name |-> "ilon", dim_names |-> <<"ilon">>, type |-> "NC_INT"],
               [name |-> "lat", dim_names |-> <<"lat">>, type |-> "NC_FLOAT"],
               [name |-> "time", dim_names |-> <<"time">>,
                type |-> "NC_DOUBLE"],
               [name |-> "tas", dim_names |-> <<"time", "lat", "lon">>,
                type |-> "NC_FLOAT"],
               [name |-> "flag", dim_names |-> <<"time", "lat", "lon">>,
                type |-> "NC_STRING"] >>
VarNames == [i \in DOMAIN FileVars |-> FileVars[i].name]
\* atrs: for each variable its id, dim_names, type and centering
Attributes ==
    [n \in {FileVars[i].name : i \in DOMAIN FileVars} |->
        LET i == CHOOSE k \in DOMAIN FileVars : FileVars[k].name = n
        IN  [id |-> i - 1, dim_names |-> FileVars[i].dim_names,
             type |-> FileVars[i].type, centering |-> "point"]]
\* the types NC_DISPATCH and NC_DISPATCH_FP have a case for (29-58)
\* the types NC_DISPATCH (38-55) and NC_DISPATCH_FP (29-37) have a case for;
\* a case ends in break (56-62), any other type runs default: alone
DispatchTypes == {"NC_BYTE", "NC_UBYTE", "NC_CHAR", "NC_SHORT", "NC_USHORT",
                  "NC_INT", "NC_UINT", "NC_INT64", "NC_UINT64", "NC_FLOAT",
                  "NC_DOUBLE"}
DispatchFpTypes == {"NC_FLOAT", "NC_DOUBLE"}
IsTimeVar(v, t_axis_variable) ==
    /\ Len(v.dim_names) = 1
    /\ v.dim_names[1] = t_axis_variable
TimeVars(t_axis_variable) ==
    LET sel == SelectSeq(FileVars, LAMBDA v : IsTimeVar(v, t_axis_variable))
    IN  [i \in DOMAIN sel |-> sel[i].name]

\* ----------------------------------------------------------- configuration
\* file_name is 0 when empty; an axis variable is "" when unset
Configs == [file_name : {0, FileNames[1]}, t_axis_variable : {"", "time"},
            x_axis_variable : {"lon", "ilon"}, y_axis_variable : {"", "lat"},
            z_axis_variable : {""}]
DefaultConfig == [file_name |-> 0, t_axis_variable |-> "time",
                  x_axis_variable |-> "lon", y_axis_variable |-> "lat",
                  z_axis_variable |-> ""]

NoPrev == [valid |-> FALSE, md |-> EmptyMd]
\* execute's locals: whether the record has "attributes", mesh_dim_names,
\* mesh_size, offs, the reads still to make, the arrays on the mesh, and
\* what became of each read
NoExec == [attributes |-> FALSE, dims |-> <<>>, mesh_size |-> 0, offs |-> 0,
           in_file |-> 0, arrays |-> <<>>, extent |-> <<>>, todo |-> <<>>,
           points |-> <<>>, infos |-> <<>>, log |-> <<>>]
IdleThread == [pc |-> "idle", op |-> "none", file |-> 0, file_id |-> 0,
               file_mutex |-> 0, rc |-> 0, id |-> 0, var |-> NullArray,
               exec |-> NoExec]
Idle(t) == thr[t].pc = "idle"
NoOpens == [f \in AllFiles |-> [n |-> 0, ids |-> {}, failed |-> FALSE]]

\* everything but the reader of rank p keeps its value
Set(fn, p, v) == [fn EXCEPT ![p] = v]

\* (a variant that clears the record and leaves the handles alone)
clear_metadata_only(p) ==
    /\ metadata' = Set(metadata, p, EmptyMd)
    /\ closed' = Set(closed, p, {})
    /\ UNCHANGED <<open_files, handles>>
\* clear_cached_metadata: metadata.clear() and clear_handles()
clear_cached_metadata(p) ==
    /\ metadata' = Set(metadata, p, EmptyMd)
    /\ open_files' = Set(open_files, p, ClosedAll(p))
    /\ handles' = Set(handles, p, clear_handles_map)
    /\ closed' = Set(closed, p, HandlesOf(p))

\* get_output_metadata returns md
Return(p, md, h) ==
    /\ pc' = Set(pc, p, "done")
    /\ ret' = Set(ret, p, md)
    /\ how' = Set(how, p, h)
\* return teca_metadata()
Fail(p) == Return(p, EmptyMd, "failed")
\* the call goes on at place l
Goto(p, l) ==
    /\ pc' = Set(pc, p, l)
    /\ UNCHANGED <<ret, how>>

\* ------------------------------------------------- set_modified (429-442)
\* a property is set: the cached metadata and the handles are cleared
set_modified(p) ==
    /\ p \in Ranks
    /\ pc[p] \in {"idle", "done"}
    /\ \A t \in Threads : Idle(t)
    /\ \E c \in Configs : cfg' = Set(cfg, p, c)
    /\ clear_cached_metadata(p)
    /\ pc' = Set(pc, p, "idle")
    /\ ret' = Set(ret, p, EmptyMd)
    /\ prev' = Set(prev, p, NoPrev)
    /\ how' = Set(how, p, "none")
    /\ env' = NotAsked
    /\ opened' = NoOpens
    /\ UNCHANGED <<is_init, n_ranks, handle_mutex, file_mutex, io, bcasts,
                   files, queue, tmp, thr, sc_in, att, sc_out>>

\* ------------------------------------- get_output_metadata: entry (445-480)
GetOutputMetadata(p) ==
    /\ p \in Ranks
    /\ pc[p] \in {"idle", "done"}
    /\ \A t \in Threads : Idle(t)
    /\ prev' = Set(prev, p, IF pc[p] = "done"
                              THEN [valid |-> TRUE, md |-> ret[p]]
                              ELSE NoPrev)
    /\ io' = Set(io, p, FALSE)
    /\ bcasts' = Set(bcasts, p, <<>>)
    /\ IF metadata[p] # EmptyMd
         THEN Return(p, metadata[p], "cached")
         ELSE IF p = RootRank
           THEN pc' = Set(pc, p, "enumerate")
                /\ how' = Set(how, p, "running") /\ ret' = ret
           ELSE IF is_init
             THEN pc' = Set(pc, p, "recv_len")
                  /\ how' = Set(how, p, "running") /\ ret' = ret
             ELSE Return(p, metadata[p], "cached")
    /\ UNCHANGED <<is_init, n_ranks, cfg, metadata, handles, handle_mutex,
                   file_mutex, open_files, env, files, queue, tmp, thr,
                   opened, sc_in, att, sc_out,
                   closed>>

\* ------------------------------------------- file-set enumeration (482-506)
Enumerate(p) ==
    /\ pc[p] = "enumerate"
    /\ IF cfg[p].file_name # 0
         THEN /\ files' = <<cfg[p].file_name>>
              /\ Goto(p, "open")
              /\ UNCHANGED <<env, io>>
         ELSE \E n \in Observe("locate", 0 .. MaxFiles) :
              /\ env' = Noted("locate", n)
              /\ io' = Set(io, p, TRUE)
              /\ IF n = 0
                   THEN Fail(p) /\ files' = files
                   ELSE files' = SubSeq(FileNames, 1, n) /\ Goto(p, "open")
    /\ UNCHANGED <<is_init, n_ranks, cfg, metadata, handles, handle_mutex,
                   file_mutex, open_files, prev, bcasts, queue, tmp, thr,
                   opened, sc_in, att, sc_out,
                   closed>>

\* --------------- open the first file and initialize the file map (508-535)
\* the handle nc_open returns here is never closed and never cached
OpenFirst(p) ==
    /\ pc[p] = "open"
    /\ \E a \in Observe("open", {0, 1}) :
       /\ env' = Noted("open", a)
       /\ io' = Set(io, p, TRUE)
       /\ IF a = 1 /\ CanOpen(p)
            THEN /\ open_files' = Set(open_files, p,
                       {o \in nc_open(p, files[1], "get_output_metadata") :
                           o.fd \notin HandlesOf(p)})
                 /\ handles' = Set(handles, p, initialize_handles(files))
                 /\ closed' = Set(closed, p, HandlesOf(p))
                 /\ Goto(p, "schema")
            ELSE /\ Fail(p)
                 /\ UNCHANGED <<open_files, handles, closed>>
    /\ UNCHANGED <<is_init, n_ranks, cfg, metadata, handle_mutex, file_mutex,
                   prev, bcasts, files, queue, tmp, thr, opened, sc_in, att, sc_out>>

\* ------------- query the mesh axes and enumerate the variables (537-677)
Schema(p) ==
    /\ pc[p] = "schema"
    /\ \E a \in Observe("schema", {0, 1}) :
       /\ env' = Noted("schema", a)
       /\ IF a = 1
            THEN /\ metadata' = Set(metadata, p,
                       Insert(Insert(Insert(metadata[p],
                           "variables", VarNames),
                           "attributes", Attributes),
                           "time variables", TimeVars(cfg[p].t_axis_variable)))
                 /\ Goto(p, "axes")
                 /\ UNCHANGED <<open_files, handles, closed>>
            ELSE /\ clear_cached_metadata(p)
                 /\ Fail(p)
    /\ UNCHANGED <<is_init, n_ranks, cfg, handle_mutex, file_mutex, prev, io,
                   bcasts, files, queue, tmp, thr, opened, sc_in, att, sc_out>>

\* ------------------------------- read the spatial coordinate axes (679-745)
ReadAxes(p) ==
    /\ pc[p] = "axes"
    /\ \E a \in Observe("axes", {0, 1}) :
       /\ env' = Noted("axes", a)
       /\ IF a = 1
            THEN /\ Goto(p, "time")
                 /\ UNCHANGED <<metadata, open_files, handles, closed>>
            ELSE /\ clear_cached_metadata(p)
                 /\ Fail(p)
    /\ UNCHANGED <<is_init, n_ranks, cfg, handle_mutex, file_mutex, prev, io,
                   bcasts, files, queue, tmp, thr, opened, sc_in, att, sc_out>>

\* --------------------------- the time axis: one task per file (756-774)

\* lines 537-575 and 679-745: the length and the array of each spatial axis;
\* NC_DISPATCH_FP leaves the array null for a type that is not floating
\* point, and an axis that is not configured gets one default element of
\* the x axis' type
AxisData(v, n) == [k \in 1 .. n |-> <<v, k>>]
AxisOf(v, x) ==
    IF v # ""
      THEN [n |-> FileDims[v],
            array |-> IF Attributes[v].type \in DispatchFpTypes
                        THEN Array(AxisData(v, FileDims[v]))
                        ELSE NullArray]
      ELSE [n |-> 1,
            array |-> IF Attributes[x].type \in DispatchFpTypes
                        THEN Array(<<<<0, 0>>>>)
                        ELSE NullArray]
Axes(c) == [x |-> AxisOf(c.x_axis_variable, c.x_axis_variable),
            y |-> AxisOf(c.y_axis_variable, c.x_axis_variable),
            z |-> AxisOf(c.z_axis_variable, c.x_axis_variable)]

\* the default time axis of a data set without one (795-804): one default
\* element of the x axis' type, null when NC_DISPATCH_FP has no case for it;
\* line 825 then asks a null pointer for its size
DefaultTime(c) == AxisOf("", c.x_axis_variable).array

\* lines 806-825: the rest of the record; n is what t_axis->size() gives
Record(md, fs, c, t_axis, step_count, n) ==
    LET axes == Axes(c)
        any(v, d) == IF v = "" THEN d ELSE v
        coords == [x_variable |-> c.x_axis_variable,
                   y_variable |-> any(c.z_axis_variable, "y"),
                   z_variable |-> any(c.z_axis_variable, "z"),
                   t_variable |-> any(c.z_axis_variable, "t"),
                   x |-> axes.x.array, y |-> axes.y.array,
                   z |-> axes.z.array, t |-> t_axis]
        m1 == Insert(md, "whole_extent",
                     <<0, axes.x.n - 1, 0, axes.y.n - 1, 0, axes.z.n - 1>>)
        m2 == Insert(m1, "coordinates", coords)
        m3 == Insert(m2, "files", fs)
        m4 == Insert(m3, "root", "dir")
        m5 == Insert(m4, "step_count", step_count)
    IN  Insert(m5, "number_of_time_steps", n)

\* lines 827-846: with MPI the record is broadcast, else it is returned
Finish(p, t_axis, step_count, n) ==
    LET md == Record(metadata[p], files, cfg[p], t_axis, step_count, n)
    IN  /\ metadata' = Set(metadata, p, md)
        /\ IF is_init
             THEN Goto(p, "bcast_len")
             ELSE Return(p, md, "assembled")

TimeAxis(p) ==
    /\ pc[p] = "time"
    /\ tmp' = <<>>
    /\ IF cfg[p].t_axis_variable # ""
         THEN /\ queue' = [i \in 1 .. Len(files) |-> i]
              /\ Goto(p, "wait")
              /\ UNCHANGED metadata
         ELSE /\ \E u \in [crash : BOOLEAN, size : 0 .. MaxSteps] :
                   LET t_axis == DefaultTime(cfg[p])
                   IN  IF ~t_axis.null
                         THEN Finish(p, t_axis, <<1>>, Len(t_axis.data))
                         ELSE IF u.crash
                           THEN Goto(p, "crashed") /\ UNCHANGED metadata
                           ELSE Finish(p, t_axis, <<1>>, u.size)
              /\ UNCHANGED queue
    /\ UNCHANGED <<is_init, n_ranks, cfg, handles, handle_mutex, file_mutex,
                   open_files, prev, io, bcasts, env, files, thr, opened,
                   sc_in, att, sc_out,
                   closed>>


\* ------------------------------------------------------------- the mutexes
\* (a variant that never blocks)
CanLockAlways(owner) == TRUE
\* std::mutex: lock blocks until the mutex is free
CanLock(owner) == owner = 0
\* (a variant in which the guard of the cache-wide mutex never unlocks)
KeptLocked(p) == handle_mutex
\* the lock guard of get_handle (245) and close_handle (220) goes out of
\* scope at the return: the cache-wide mutex of rank p is free
Unlocked(p) == Set(handle_mutex, p, 0)

\* the rank whose threads run: the one that reads the files
P == RootRank

SetThr(t, r) == [thr EXCEPT ![t] = r]

\* the thread pool hands the next queued task to an idle worker
Dispatch(t) ==
    /\ pc[P] = "wait"
    /\ Idle(t)
    /\ queue # <<>>
    /\ thr' = SetThr(t, [IdleThread EXCEPT !.pc = "gh_lock", !.op = "task",
                            !.id = Head(queue), !.file = files[Head(queue)]])
    /\ queue' = Tail(queue)
    /\ UNCHANGED <<is_init, n_ranks, cfg, metadata, handles, handle_mutex,
                   file_mutex, open_files, pc, ret, prev, io, how, bcasts,
                   env, files, tmp, opened, sc_in, att, sc_out,
                   closed>>

\* (a variant in which the caller is never told of an error)
BackOk(rc) == [IdleThread EXCEPT !.rc = 0]
\* the caller is back in the pipeline with result rc
Back(rc) == [IdleThread EXCEPT !.rc = rc]
\* (a variant in which execute always returns a mesh)
OutMesh(rc) == [Back(0) EXCEPT !.op = "exec"]
\* execute has returned: no mesh (rc -1), or the mesh (rc 0)
Out(rc) == [Back(rc) EXCEPT !.op = "exec"]

\* ------------------------ execute: the reads of one request (1113-1209)
\* the read at the head of todo is over: what was looked up, checked and read
Logged(e, attrs, dims, read) ==
    LET it == Head(e.todo)
    IN  [e EXCEPT !.todo = Tail(@),
                  !.log = Append(@, [i |-> it.i, name |-> it.name,
                                     kind |-> it.kind, attrs |-> attrs,
                                     dims |-> dims, read |-> read])]
\* continue: the array is skipped
Skipped(e, attrs, dims, read) == Logged(e, attrs, dims, read)
\* mesh->get_point_arrays()->append(arrays[i], array), or
\* get_information_arrays() for a time variable
Attached(e, array, read) ==
    LET it == Head(e.todo)
        a == [i |-> it.i, name |-> it.name, array |-> array]
    IN  IF it.kind = "point"
          THEN [Logged(e, TRUE, TRUE, read) EXCEPT !.points = Append(@, a)]
          ELSE [Logged(e, TRUE, TRUE, read) EXCEPT !.infos = Append(@, a)]

RECURSIVE Advance(_)
\* the loops up to the next library read: the attribute lookup (1122-1129,
\* 1183-1190), the dimension check of a mesh variable (1131-1151), and the
\* switch on the type, which for a type without a case runs the default
\* alone: nothing is read and array stays null
Advance(e) ==
    IF e.todo = <<>> THEN e
    ELSE LET it == Head(e.todo)
         IN  IF ~it.found
               THEN Advance(Skipped(e, FALSE, FALSE, "none"))
             ELSE IF it.kind = "point" /\ it.atts.dim_names # e.dims
               THEN Advance(Skipped(e, TRUE, FALSE, "none"))
             ELSE IF it.atts.type \notin DispatchTypes
               THEN Advance(Attached(e, NullArray, "none"))
             ELSE e
\* the thread goes on to the read, or to return mesh
Proceed(r, e) ==
    [r EXCEPT !.exec = e,
              !.pc = IF e.todo = <<>> THEN "ex_return" ELSE "ex_lock"]

\* what the caller of get_handle does with its result
\*   read_variable (308-313): no handle, the task returns (id, nullptr)
\*   execute (1040-1044): no handle, no mesh; else the reads (1113-1209)
\*   execute (1056-1063): no "attributes" in the record, no mesh
AfterGet(r, rc, fid) ==
    LET g == [r EXCEPT !.rc = rc, !.file_id = fid]
    IN  IF r.op = "task"
          THEN [g EXCEPT !.pc = IF rc = 0 THEN "rv_read" ELSE "rv_return"]
          ELSE IF r.op = "exec" /\ rc = 0
            THEN IF r.exec.attributes
                   THEN Proceed(g, Advance(r.exec))
                   ELSE Out(-1)
            ELSE IF r.op = "exec" THEN Out(rc) ELSE Back(rc)

\* get_handle (241-245): lock the cache-wide mutex
GhLock(t) ==
    /\ thr[t].pc = "gh_lock"
    /\ CanLock(handle_mutex[P])
    /\ handle_mutex' = Set(handle_mutex, P, t)
    /\ thr' = SetThr(t, [thr[t] EXCEPT !.pc = "gh_find"])
    /\ UNCHANGED <<is_init, n_ranks, cfg, metadata, handles, file_mutex,
                   open_files, pc, ret, prev, io, how, bcasts, env, files,
                   queue, tmp, opened, sc_in, att, sc_out,
                   closed>>

\* line 260: the mutex of a file's entry; an entry's mutex guards its file
MutexOf(p, f) == IF handles[p][f].mutex = 1 THEN f ELSE 0

\* get_handle (247-266): look the entry up, return the cached handle
GhFind(t) ==
    /\ thr[t].pc = "gh_find"
    /\ thr[t].file \in DOMAIN handles[P]
    /\ LET h == handles[P][thr[t].file].handle
           r == [thr[t] EXCEPT !.file_mutex = MutexOf(P, thr[t].file)]
       IN  IF h # 0
             THEN /\ thr' = SetThr(t, AfterGet(r, 0, h))
                  /\ handle_mutex' = Unlocked(P)
                  /\ opened' = [opened EXCEPT ![thr[t].file].ids = @ \cup {h}]
             ELSE /\ thr' = SetThr(t, [r EXCEPT !.pc = "gh_open"])
                  /\ UNCHANGED <<handle_mutex, opened>>
    /\ UNCHANGED <<is_init, n_ranks, cfg, metadata, handles, file_mutex,
                   open_files, pc, ret, prev, io, how, bcasts, env, files,
                   queue, tmp, sc_in, att, sc_out,
                   closed>>

\* (a variant that keeps one handle only: caching one drops the others)
CachedAlone(p, f, fd) ==
    [g \in DOMAIN handles[p] |->
        [handles[p][g] EXCEPT !.handle = IF g = f THEN fd ELSE 0]]
\* get_handle (277): it->second.second = new netcdf_handle(file_id)
Cached(p, f, fd) == [handles[p] EXCEPT ![f].handle = fd]

\* get_handle (268-280): open the file and cache the handle
GhOpen(t) ==
    /\ thr[t].pc = "gh_open"
    /\ thr[t].file \in DOMAIN handles[P]
    /\ \E ok \in BOOLEAN :
       LET f == thr[t].file
           fd == FreshFd(P)
       IN  IF ok /\ CanOpen(P)
             THEN /\ open_files' = Set(open_files, P,
                                       nc_open(P, f, "get_handle"))
                  /\ handles' = Set(handles, P, Cached(P, f, fd))
                  /\ thr' = SetThr(t, AfterGet(thr[t], 0, fd))
                  /\ opened' = [opened EXCEPT ![f] =
                                  [n |-> @.n + 1, ids |-> @.ids \cup {fd},
                                   failed |-> @.failed]]
             ELSE /\ thr' = SetThr(t, AfterGet(thr[t], -1, 0))
                  /\ opened' = [opened EXCEPT ![f].failed = TRUE]
                  /\ UNCHANGED <<open_files, handles>>
    /\ handle_mutex' = Unlocked(P)
    /\ UNCHANGED <<is_init, n_ranks, cfg, metadata, file_mutex, pc, ret, prev,
                   io, how, bcasts, env, files, queue, tmp, sc_in, att, sc_out,
                   closed>>

\* (a variant that closes the handle only after a good read)
ThenCloseIfRead(r) ==
    [r EXCEPT !.pc = IF r.var.null THEN "rv_return" ELSE "ch_lock"]
\* read_variable (326, 339, 344, 349): every path after get_handle calls
\* close_handle before its return
ThenClose(r) == [r EXCEPT !.pc = "ch_lock"]

\* read_variable (315-352): query the time dimension and read the variable;
\* r = -1 is a failed query or read or an unsupported type, else the length
RvRead(t) ==
    /\ thr[t].pc = "rv_read"
    /\ \E r \in -1 .. MaxSteps :
       thr' = SetThr(t, ThenClose([thr[t] EXCEPT
                 !.var = IF r = -1 THEN NullArray
                         ELSE Array(TimeOf(thr[t].file, r))]))
    /\ UNCHANGED <<is_init, n_ranks, cfg, metadata, handles, handle_mutex,
                   file_mutex, open_files, pc, ret, prev, io, how, bcasts,
                   env, files, queue, tmp, opened, sc_in, att, sc_out,
                   closed>>

\* close_handle (217-220): lock the cache-wide mutex
ChLock(t) ==
    /\ thr[t].pc = "ch_lock"
    /\ CanLock(handle_mutex[P])
    /\ handle_mutex' = Set(handle_mutex, P, t)
    /\ thr' = SetThr(t, [thr[t] EXCEPT !.pc = "ch_delete"])
    /\ UNCHANGED <<is_init, n_ranks, cfg, metadata, handles, file_mutex,
                   open_files, pc, ret, prev, io, how, bcasts, env, files,
                   queue, tmp, opened, sc_in, att, sc_out,
                   closed>>

\* close_handle (222-237): delete the handle, which closes the file
ChDelete(t) ==
    /\ thr[t].pc = "ch_delete"
    /\ thr[t].file \in DOMAIN handles[P]
    /\ LET f == thr[t].file
       IN  /\ open_files' = Set(open_files, P,
                                nc_close(P, handles[P][f].handle))
           /\ handles' = [handles EXCEPT ![P][f].handle = 0]
           /\ opened' = [opened EXCEPT ![f] = NoOpens[f]]
    /\ handle_mutex' = Unlocked(P)
    /\ thr' = SetThr(t, IF thr[t].op = "task"
                          THEN [thr[t] EXCEPT !.pc = "rv_return"]
                          ELSE Back(0))
    /\ UNCHANGED <<is_init, n_ranks, cfg, metadata, file_mutex, pc, ret, prev,
                   io, how, bcasts, env, files, queue, tmp, sc_in, att, sc_out,
                   closed>>

\* the task returns (id, var) and the pool keeps the result
RvReturn(t) ==
    /\ thr[t].pc = "rv_return"
    /\ tmp' = Append(tmp, [id |-> thr[t].id, var |-> thr[t].var])
    /\ thr' = SetThr(t, IdleThread)
    /\ UNCHANGED <<is_init, n_ranks, cfg, metadata, handles, handle_mutex,
                   file_mutex, open_files, pc, ret, prev, io, how, bcasts,
                   env, files, queue, opened, sc_in, att, sc_out,
                   closed>>

\* ------------------------------ unpack the results and assemble (771-793)
\* (a variant that takes the results in their order of completion)
time_arrays_in_tmp_order(i) == tmp[i].var
\* std::map<unsigned long, p_teca_variant_array> time_arrays(tmp.begin(),
\* tmp.end()): the result of the task with id i, whatever its place in tmp
time_arrays(i) == tmp[CHOOSE k \in DOMAIN tmp : tmp[k].id = i].var

\* lines 790-792 dereference a null pointer when a later file's task failed:
\* the process dies, or the calls read what is not an array: any length
\* appended, any size reported
Undefined(n) == [crash : BOOLEAN,
                 app : [2 .. n -> 0 .. MaxSteps],
                 size : [2 .. n -> 0 .. MaxSteps]]
Garbage(len) == [k \in 1 .. len |-> <<0, k>>]
SomeNull(n) == \E i \in 2 .. n : time_arrays(i).null

RECURSIVE Appended(_, _)
\* t_axis after the appends of the files 2 .. i
Appended(i, u) ==
    IF i = 1 THEN time_arrays(1).data
    ELSE Appended(i - 1, u) \o (IF time_arrays(i).null
                                  THEN Garbage(u.app[i])
                                  ELSE time_arrays(i).data)
StepCount(n, u) ==
    [i \in 1 .. n |-> IF i > 1 /\ time_arrays(i).null
                        THEN u.size[i]
                        ELSE Len(time_arrays(i).data)]

\* lines 780-785: no time axis from the first file, the phase fails
WaitData(p) ==
    /\ pc[p] = "wait"
    /\ queue = <<>>
    /\ Len(tmp) = Len(files)
    /\ LET n == Len(files)
       IN  IF time_arrays(1).null
             THEN /\ Fail(p)
                  /\ UNCHANGED metadata
             ELSE \E u \in Undefined(n) :
                  IF SomeNull(n) /\ u.crash
                    THEN /\ Goto(p, "crashed")
                         /\ UNCHANGED metadata
                    ELSE Finish(p, Array(Appended(n, u)), StepCount(n, u),
                                Len(Appended(n, u)))
    /\ UNCHANGED <<is_init, n_ranks, cfg, handles, handle_mutex, file_mutex,
                   open_files, prev, io, bcasts, env, files, queue, tmp, thr,
                   opened, sc_in, att, sc_out,
                   closed>>


\* ------------------------------------------ execute: step to file (1016-1024)
\* (a variant of the loop's condition with < for <=)
LoopCondStrict(step_count, time_step, i, count) ==
    /\ i < Len(step_count)
    /\ (count + step_count[i]) < time_step
\* the loop's condition; i counts from 1 and reads step_count[i-1], which is
\* the i-th element here
LoopCond(step_count, time_step, i, count) ==
    /\ i < Len(step_count)
    /\ (count + step_count[i]) <= time_step

RECURSIVE ScanFrom(_, _, _, _, _)
ScanFrom(step_count, time_step, i, idx, count) ==
    IF LoopCond(step_count, time_step, i, count)
      THEN ScanFrom(step_count, time_step, i + 1, idx + 1,
                    count + step_count[i])
      ELSE [idx |-> idx, offs |-> time_step - count]
\* idx is the index of the file, from 0, and offs the step inside it
Scan(step_count, time_step) == ScanFrom(step_count, time_step, 1, 0, 0)

\* ------------------------------------------------------ execute (947-1212)
\* lines 958-1034: the cached metadata must hold these
Required == {"coordinates", "whole_extent", "step_count", "root", "files"}
\* the extents inside a whole extent
Extents(we) ==
    LET in(n) == {r \in (0 .. n) \X (0 .. n) : r[1] <= r[2]}
    IN  {<<x[1], x[2], y[1], y[2], z[1], z[2]>> :
            x \in in(we[2]), y \in in(we[4]), z \in in(we[6])}
\* the array lists a request can name: variables of the file, and one that is
\* not in the file
ArrayNames == {"tas", "flag", "time", "none"}
ArrayLists == UNION {[1 .. n -> ArrayNames] : n \in 0 .. MaxArrays}
NoExtent == <<>>
\* the steps a request can name: those of the record and MaxOver beyond
TimeSteps(md) ==
    0 .. ((IF "step_count" \in DOMAIN md THEN Sum(md["step_count"]) ELSE 0)
            + MaxOver - 1)
\* the requests: time_step, arrays, and an extent or none
Requests(md) ==
    [time_step : TimeSteps(md),
     arrays : ArrayLists,
     extent : IF "whole_extent" \in DOMAIN md
                THEN Extents(md["whole_extent"]) \cup {NoExtent}
                ELSE {NoExtent}]
\* the requests of a pipeline that asks for the whole mesh of one variable
\* at a step of the record, or at step 0 whatever the record
PlainRequests(md) ==
    [time_step : {0} \cup
        (0 .. ((IF "step_count" \in DOMAIN md THEN Sum(md["step_count"])
                ELSE 0) - 1)),
     arrays : {<<>>, <<"tas">>},
     extent : {NoExtent}]

\* lines 987-989: the requested extent, else the whole extent
ExtentOf(md, rq) ==
    IF rq.extent = NoExtent THEN md["whole_extent"] ELSE rq.extent
\* lines 1078-1109: mesh_dim_names, in the order t, z, y, x of the axes set
MeshDimNames(c) ==
    LET one(v) == IF v = "" THEN <<>> ELSE <<v>>
    IN  one(c.t_axis_variable) \o one(c.z_axis_variable)
          \o one(c.y_axis_variable) \o one(c.x_axis_variable)
\* lines 1078-1109: mesh_size, the product of the counts of the axes set
MeshSize(c, extent) ==
    LET count(v, i) == IF v = "" THEN 1 ELSE extent[i + 1] - extent[i] + 1
    IN  count(c.z_axis_variable, 5) * count(c.y_axis_variable, 3)
          * count(c.x_axis_variable, 1)

\* one read to make: the i-th array of the request (kind "point") or the
\* i-th time variable (kind "info"), with its attributes if it has any
NoAtts == [id |-> -1, dim_names |-> <<>>, type |-> "", centering |-> ""]
Item(md, name, kind, i) ==
    LET found == "attributes" \in DOMAIN md
                   /\ name \in DOMAIN md["attributes"]
    IN  [name |-> name, kind |-> kind, i |-> i, found |-> found,
         atts |-> IF found THEN md["attributes"][name] ELSE NoAtts]
\* lines 1113 and 1172-1176: the arrays of the request, then the time
\* variables of the record
Todo(md, rq) ==
    LET tv == IF "time variables" \in DOMAIN md
                THEN md["time variables"] ELSE <<>>
    IN  [i \in DOMAIN rq.arrays |-> Item(md, rq.arrays[i], "point", i)]
          \o [i \in DOMAIN tv |-> Item(md, tv[i], "info", i)]

\* lines 958-1034: the file of the request, or none and the error logged: a
\* key of Required is missing, a coordinate array is null, or files has no
\* element idx
NoFile(why) == [ok |-> FALSE, file |-> 0, idx |-> -1, offs |-> -1,
                why |-> why]
Resolve(md, rq) ==
    IF "coordinates" \notin DOMAIN md THEN NoFile("coordinates")
    ELSE IF \E a \in {"x", "y", "z", "t"} : md["coordinates"][a].null
      THEN NoFile("coordinate arrays")
    ELSE IF "whole_extent" \notin DOMAIN md THEN NoFile("whole_extent")
    ELSE IF "step_count" \notin DOMAIN md THEN NoFile("step_count")
    ELSE IF ~({"root", "files"} \subseteq DOMAIN md) THEN NoFile("files")
    ELSE LET at == Scan(md["step_count"], rq.time_step)
         IN  IF at.idx + 1 \notin DOMAIN md["files"] THEN NoFile("files")
             ELSE [ok |-> TRUE, file |-> md["files"][at.idx + 1],
                   idx |-> at.idx, offs |-> at.offs, why |-> ""]
\* TECA_ERROR of lines 961, 969, 982, 1010, 1031: what execute reported
Reported(why) ==
    <<[i |-> 0, name |-> why, kind |-> "error", attrs |-> FALSE,
       dims |-> FALSE, read |-> "none"]>>

\* lines 947-1044: the request is resolved to a file, whose handle is asked
\* for; the locals of the reads that follow are set here
StartExec(t, rq) ==
    /\ pc[P] \in {"idle", "done"}
    /\ Idle(t)
    /\ LET md == metadata[P]
           at == Resolve(md, rq)
       IN  IF ~at.ok
             THEN thr' = SetThr(t, [Out(-1) EXCEPT
                                       !.exec.log = Reported(at.why)])
             ELSE LET extent == ExtentOf(md, rq)
                      e == [NoExec EXCEPT
                               !.attributes = "attributes" \in DOMAIN md,
                               !.dims = MeshDimNames(cfg[P]),
                               !.mesh_size = MeshSize(cfg[P], extent),
                               !.offs = at.offs,
                               !.in_file = md["step_count"][at.idx + 1],
                               !.arrays = rq.arrays,
                               !.extent = extent,
                               !.todo = Todo(md, rq)]
                  IN  thr' = SetThr(t, [IdleThread EXCEPT
                               !.pc = "gh_lock", !.op = "exec",
                               !.file = at.file, !.exec = e])
    /\ UNCHANGED <<is_init, n_ranks, cfg, metadata, handles, handle_mutex,
                   file_mutex, open_files, pc, ret, prev, io, how, bcasts,
                   env, files, queue, tmp, opened, sc_in, att, sc_out,
                   closed>>

\* lines 1158 and 1197: lock the mutex get_handle gave for one read
ExLock(t) ==
    /\ thr[t].pc = "ex_lock"
    /\ CanLock(file_mutex[P][thr[t].file_mutex])
    /\ file_mutex' = [file_mutex EXCEPT ![P][thr[t].file_mutex] = t]
    /\ thr' = SetThr(t, [thr[t] EXCEPT !.pc = "ex_read"])
    /\ UNCHANGED <<is_init, n_ranks, cfg, metadata, handles, handle_mutex,
                   open_files, pc, ret, prev, io, how, bcasts, env, files,
                   queue, tmp, opened, sc_in, att, sc_out,
                   closed>>

\* what nc_get_vara can answer: a start past the end of the time dimension
\* is an error, any read can fail
ReadAnswers(e) ==
    IF MeshDimNames(cfg[P]) # <<>> /\ cfg[P].t_axis_variable # ""
         /\ e.offs >= e.in_file
      THEN {FALSE} ELSE BOOLEAN
\* the values read: mesh_size elements of a mesh variable (1159), one of a
\* time variable (1198)
ReadData(e) ==
    LET it == Head(e.todo)
    IN  Array([k \in 1 .. (IF it.kind = "point" THEN e.mesh_size ELSE 1) |->
                  <<it.name, k>>])

\* lines 1159-1168 and 1198-1207: nc_get_vara, then the lock guard unlocks;
\* a failed read skips the array, a good one is attached to the mesh
ExRead(t) ==
    /\ thr[t].pc = "ex_read"
    /\ file_mutex' = [file_mutex EXCEPT ![P][thr[t].file_mutex] = 0]
    /\ \E ok \in ReadAnswers(thr[t].exec) :
       LET e == thr[t].exec
           e1 == IF ok THEN Attached(e, ReadData(e), "ok")
                 ELSE Skipped(e, TRUE, TRUE, "failed")
       IN  thr' = SetThr(t, Proceed(thr[t], Advance(e1)))
    /\ UNCHANGED <<is_init, n_ranks, cfg, metadata, handles, handle_mutex,
                   open_files, pc, ret, prev, io, how, bcasts, env, files,
                   queue, tmp, opened, sc_in, att, sc_out,
                   closed>>

\* line 1211: return mesh
ExReturn(t) ==
    /\ thr[t].pc = "ex_return"
    /\ thr' = SetThr(t, Out(0))
    /\ UNCHANGED <<is_init, n_ranks, cfg, metadata, handles, handle_mutex,
                   file_mutex, open_files, pc, ret, prev, io, how, bcasts,
                   env, files, queue, tmp, opened, sc_in, att, sc_out,
                   closed>>

\* a thread calls acquire (get_handle) or release (close_handle) itself
StartGet(t, f) ==
    /\ pc[P] = "done"
    /\ Idle(t)
    /\ f \in DOMAIN handles[P]
    /\ thr' = SetThr(t, [IdleThread EXCEPT !.pc = "gh_lock", !.op = "get",
                                           !.file = f])
    /\ UNCHANGED <<is_init, n_ranks, cfg, metadata, handles, handle_mutex,
                   file_mutex, open_files, pc, ret, prev, io, how, bcasts,
                   env, files, queue, tmp, opened, sc_in, att, sc_out,
                   closed>>

StartClose(t, f) ==
    /\ pc[P] = "done"
    /\ Idle(t)
    /\ f \in DOMAIN handles[P]
    /\ thr' = SetThr(t, [IdleThread EXCEPT !.pc = "ch_lock", !.op = "close",
                                           !.file = f])
    /\ UNCHANGED <<is_init, n_ranks, cfg, metadata, handles, handle_mutex,
                   file_mutex, open_files, pc, ret, prev, io, how, bcasts,
                   env, files, queue, tmp, opened, sc_in, att, sc_out,
                   closed>>

\* ------------------------------------------- the broadcast (827-846, 847-878)
\* teca_metadata::to_stream and from_stream: the keys in insertion order,
\* each with its value
KeyOrder == <<"variables", "attributes", "time variables", "whole_extent",
              "coordinates", "files", "root", "step_count",
              "number_of_time_steps">>
to_stream(md) ==
    LET ks == SelectSeq(KeyOrder, LAMBDA k : Has(md, k))
    IN  [i \in DOMAIN ks |-> [key |-> ks[i], value |-> md[ks[i]]]]
from_stream(bstr) ==
    [k \in {bstr[i].key : i \in DOMAIN bstr} |->
        bstr[CHOOSE i \in DOMAIN bstr : bstr[i].key = k].value]

\* MPI_Bcast is collective: it completes when every rank of the group has
\* called it, and each rank gets its own return code
AtBcast(place_root, place_other) ==
    /\ is_init
    /\ pc[RootRank] = place_root
    /\ \A q \in Ranks \ {RootRank} : pc[q] = place_other

\* what rank p holds once it cleared its cache for a failed broadcast
Cleared(fn, errs, v) ==
    [p \in AllRanks |-> IF p \in errs THEN v ELSE fn[p]]

\* lines 835 and 852: the length
BcastLen ==
    /\ AtBcast("bcast_len", "recv_len")
    /\ \E errs \in SUBSET Ranks :
       /\ pc' = [p \in AllRanks |->
                   IF p \notin Ranks THEN pc[p]
                   ELSE IF p \in errs THEN "done"
                   ELSE IF p = RootRank THEN "bcast_bytes" ELSE "recv_bytes"]
       /\ ret' = Cleared(ret, errs, EmptyMd)
       /\ how' = Cleared(how, errs, "failed")
       /\ metadata' = Cleared(metadata, errs, EmptyMd)
       /\ handles' = Cleared(handles, errs, clear_handles_map)
       /\ open_files' = [p \in AllRanks |->
                           IF p \in errs THEN ClosedAll(p) ELSE open_files[p]]
       /\ closed' = [p \in AllRanks |->
                       IF p \in errs THEN HandlesOf(p) ELSE closed[p]]
    /\ bcasts' = [p \in AllRanks |->
                    IF p \in Ranks THEN Append(bcasts[p], "len")
                    ELSE bcasts[p]]
    /\ UNCHANGED <<is_init, n_ranks, cfg, handle_mutex, file_mutex, prev, io,
                   env, files, queue, tmp, thr, opened, sc_in, att, sc_out>>

\* lines 837 and 860-876: the bytes; the receivers rebuild the record and
\* initialize their file map
BcastBytes ==
    /\ AtBcast("bcast_bytes", "recv_bytes")
    /\ \E errs \in SUBSET Ranks :
       LET md == from_stream(to_stream(metadata[RootRank]))
           got == Ranks \ (errs \cup {RootRank})
           fs == IF Has(md, "files") THEN md["files"] ELSE <<>>
       IN  /\ pc' = [p \in AllRanks |-> IF p \in Ranks THEN "done" ELSE pc[p]]
           /\ metadata' = [p \in AllRanks |->
                             IF p \in errs THEN EmptyMd
                             ELSE IF p \in got THEN md ELSE metadata[p]]
           /\ ret' = [p \in AllRanks |->
                        IF p \in errs THEN EmptyMd
                        ELSE IF p \in got THEN md
                        ELSE IF p = RootRank THEN metadata[p] ELSE ret[p]]
           /\ how' = [p \in AllRanks |->
                        IF p \in errs THEN "failed"
                        ELSE IF p \in got THEN "received"
                        ELSE IF p = RootRank THEN "assembled" ELSE how[p]]
           /\ handles' = [p \in AllRanks |->
                            IF p \in errs THEN clear_handles_map
                            ELSE IF p \in got THEN initialize_handles(fs)
                            ELSE handles[p]]
           /\ open_files' = [p \in AllRanks |->
                               IF p \in errs \cup got THEN ClosedAll(p)
                               ELSE open_files[p]]
           /\ closed' = [p \in AllRanks |->
                           IF p \in errs \cup got THEN HandlesOf(p)
                           ELSE closed[p]]
    /\ bcasts' = [p \in AllRanks |->
                    IF p \in Ranks THEN Append(bcasts[p], "bytes")
                    ELSE bcasts[p]]
    /\ UNCHANGED <<is_init, n_ranks, cfg, handle_mutex, file_mutex, prev, io,
                   env, files, queue, tmp, thr, opened, sc_in, att, sc_out>>


\* the scan alone, on any step_count and time_step
NotScanned == [idx |-> -1, offs |-> -1]
StepCounts == UNION {[1 .. n -> 0 .. (MaxSteps + 1)] : n \in 0 .. (MaxFiles + 1)}
ScanInputs == {[step_count |-> c, time_step |-> ts] :
                  c \in StepCounts, ts \in 0 .. (MaxFiles + 1) * (MaxSteps + 1)}
ScanStep ==
    /\ sc_out = NotScanned
    /\ sc_out' = Scan(sc_in.step_count, sc_in.time_step)
    /\ UNCHANGED <<is_init, n_ranks, cfg, metadata, handles, handle_mutex,
                   file_mutex, open_files, pc, ret, prev, io, how, bcasts,
                   env, files, queue, tmp, thr, opened, sc_in, att, closed>>

\* ------------------------------------- character attributes (69-81, 661-668)
\* the characters of an attribute, by their codes
NUL == 0
Tab == 9
Newline == 10
CarriageReturn == 13
Space == 32
Letter == 97
Chars == {NUL, Tab, Newline, CarriageReturn, Space, Letter}
\* the longest attribute text in a file
MaxLen == 3

\* the loop's condition (75-76): n is the index of c, counted from 0
TrimMore(s, n) ==
    n > 0 /\ s[n + 1] \in {Space, Newline, Tab, CarriageReturn}
RECURSIVE TrimLoop(_, _)
\* lines 74-80: c = s[--n]; while the condition holds, s[n] = 0, c = s[--n]
TrimLoop(s, n) ==
    IF TrimMore(s, n) THEN TrimLoop([s EXCEPT ![n + 1] = NUL], n - 1) ELSE s
\* crtrim(s, n) (71-81): nothing for n = 0
crtrim(s, n) == IF n = 0 THEN s ELSE TrimLoop(s, n - 1)

\* std::string(buffer) (667): the characters before the first NUL
CString(s) ==
    LET end == CHOOSE k \in DOMAIN s :
                   s[k] = NUL /\ \A j \in 1 .. (k - 1) : s[j] # NUL
    IN  SubSeq(s, 1, end - 1)
\* lines 663-665: the buffer has att_len + 1 characters, the last one NUL,
\* and nc_get_att_text fills the first att_len with the attribute's value
Buffer(value) == Append(value, NUL)
AttValues == UNION {[1 .. n -> Chars] : n \in 0 .. MaxLen}
NotRead == [value |-> <<>>, read |-> FALSE, text |-> <<>>]
NoTrim == att = NotRead
\* lines 661-668: a character attribute is read, trimmed and inserted
ReadAtt ==
    /\ ~att.read
    /\ att' = [att EXCEPT !.read = TRUE,
                  !.text = CString(crtrim(Buffer(att.value), Len(att.value)))]
    /\ UNCHANGED <<is_init, n_ranks, cfg, metadata, handles, handle_mutex,
                   file_mutex, open_files, pc, ret, prev, io, how, bcasts,
                   env, files, queue, tmp, thr, opened, closed, sc_in,
                   sc_out>>

\* ------------------------------------------------------ the specifications
\* a reader as constructed (368-376)
InitReader(c) ==
    /\ cfg = [p \in AllRanks |-> c]
    /\ metadata = [p \in AllRanks |-> EmptyMd]
    /\ handles = [p \in AllRanks |-> NoHandles]
    /\ handle_mutex = [p \in AllRanks |-> 0]
    /\ file_mutex = [p \in AllRanks |-> [f \in AllFiles |-> 0]]
    /\ open_files = [p \in AllRanks |-> {}]
    /\ pc = [p \in AllRanks |-> "idle"]
    /\ ret = [p \in AllRanks |-> EmptyMd]
    /\ prev = [p \in AllRanks |-> NoPrev]
    /\ io = [p \in AllRanks |-> FALSE]
    /\ how = [p \in AllRanks |-> "none"]
    /\ bcasts = [p \in AllRanks |-> <<>>]
    /\ env = NotAsked
    /\ files = <<>>
    /\ queue = <<>>
    /\ tmp = <<>>
    /\ thr = [t \in Threads |-> IdleThread]
    /\ opened = NoOpens
    /\ closed = [p \in AllRanks |-> {}]
NoScan ==
    /\ sc_in = [step_count |-> <<>>, time_step |-> 0]
    /\ sc_out = NotScanned

\* a reader without MPI: rank 0 of 1
Init ==
    /\ is_init = FALSE
    /\ n_ranks = 1
    /\ InitReader(DefaultConfig)
    /\ NoScan
    /\ NoTrim

Assembly(p) ==
    \/ GetOutputMetadata(p)
    \/ Enumerate(p)
    \/ OpenFirst(p)
    \/ Schema(p)
    \/ ReadAxes(p)
    \/ TimeAxis(p)
    \/ WaitData(p)

Task(t) ==
    \/ Dispatch(t)
    \/ RvRead(t)
    \/ RvReturn(t)

Cache(t) ==
    \/ GhLock(t)
    \/ GhFind(t)
    \/ GhOpen(t)
    \/ ChLock(t)
    \/ ChDelete(t)

Execute(t) ==
    \/ \E rq \in PlainRequests(metadata[P]) : StartExec(t, rq)
    \/ ExLock(t)
    \/ ExRead(t)
    \/ ExReturn(t)

\* the reader in a pipeline that calls it from one thread
Next ==
    \/ \E p \in AllRanks : set_modified(p) \/ Assembly(p)
    \/ \E t \in Threads : Task(t) \/ Cache(t)
    \/ Execute(1)

Spec == Init /\ [][Next]_vars

\* the reader on every rank of an MPI job; the program sets the same
\* properties on every rank before the first request
InitMPI ==
    /\ is_init = TRUE
    /\ n_ranks \in 1 .. MaxRanks
    /\ \E c \in Configs : InitReader(c)
    /\ NoScan
    /\ NoTrim

NextMPI ==
    \/ \E p \in AllRanks : Assembly(p)
    \/ \E t \in Threads : Task(t) \/ Cache(t)
    \/ BcastLen
    \/ BcastBytes

SpecMPI == InitMPI /\ [][NextMPI]_vars

\* every rank is a running process and every pool thread is scheduled: a
\* step of the phase that can be taken is taken, and a broadcast that every
\* rank has entered completes; when a rank calls get_output_metadata is up
\* to the program
Steps(p) ==
    \/ Enumerate(p)
    \/ OpenFirst(p)
    \/ Schema(p)
    \/ ReadAxes(p)
    \/ TimeAxis(p)
    \/ WaitData(p)
FairMPI ==
    /\ \A p \in AllRanks : WF_vars(Steps(p))
    /\ \A t \in Threads : WF_vars(Task(t) \/ Cache(t))
    /\ WF_vars(BcastLen \/ BcastBytes)
SpecMPIFair == SpecMPI /\ FairMPI

\* the execute phase: threads on the cache of a reader whose metadata phase
\* found every file; the first file's handle of line 524 is still open
InitCache ==
    /\ is_init = FALSE
    /\ n_ranks = 1
    /\ cfg = [p \in AllRanks |-> DefaultConfig]
    /\ \E c \in [1 .. MaxFiles -> 0 .. MaxSteps] :
       LET arrays == [i \in 1 .. MaxFiles |-> TimeOf(FileNames[i], c[i])]
           RECURSIVE Cat(_)
           Cat(i) == IF i = 0 THEN <<>> ELSE Cat(i - 1) \o arrays[i]
           md == Record(Insert(Insert(Insert(EmptyMd,
                            "variables", VarNames),
                            "attributes", Attributes),
                            "time variables", TimeVars("time")),
                        FileNames, DefaultConfig, Array(Cat(MaxFiles)), c,
                        Len(Cat(MaxFiles)))
       IN  /\ metadata = [p \in AllRanks |-> md]
           /\ ret = [p \in AllRanks |-> md]
    /\ handles = [p \in AllRanks |-> initialize_handles(FileNames)]
    /\ handle_mutex = [p \in AllRanks |-> 0]
    /\ file_mutex = [p \in AllRanks |-> [f \in AllFiles |-> 0]]
    /\ open_files = [p \in AllRanks |->
          {[fd |-> 1, file |-> FileNames[1], by |-> "get_output_metadata"]}]
    /\ pc = [p \in AllRanks |-> "done"]
    /\ prev = [p \in AllRanks |-> NoPrev]
    /\ io = [p \in AllRanks |-> TRUE]
    /\ how = [p \in AllRanks |-> "assembled"]
    /\ bcasts = [p \in AllRanks |-> <<>>]
    /\ env = [locate |-> MaxFiles, open |-> 1, schema |-> 1, axes |-> 1]
    /\ files = FileNames
    /\ queue = <<>>
    /\ tmp = <<>>
    /\ thr = [t \in Threads |-> IdleThread]
    /\ opened = NoOpens
    /\ closed = [p \in AllRanks |-> {}]
    /\ NoScan
    /\ NoTrim

NextCache ==
    \E t \in Threads :
        \/ \E f \in AllFiles : StartGet(t, f) \/ StartClose(t, f)
        \/ Cache(t)
        \/ Execute(t)

SpecCache == InitCache /\ [][NextCache]_vars

\* the number of time-axis tasks whose results wait to be collected
MaxTasks == 1
\* a pool thread takes the time-axis task of file i (762-769) while other
\* threads are in execute
StartTask(t, i) ==
    /\ pc[P] = "done"
    /\ Idle(t)
    /\ i \in DOMAIN files
    /\ Len(tmp) + Cardinality({u \in Threads : thr[u].op = "task"}) < MaxTasks
    /\ thr' = SetThr(t, [IdleThread EXCEPT !.pc = "gh_lock", !.op = "task",
                            !.id = i, !.file = files[i]])
    /\ UNCHANGED <<is_init, n_ranks, cfg, metadata, handles, handle_mutex,
                   file_mutex, open_files, pc, ret, prev, io, how, bcasts,
                   env, files, queue, tmp, opened, sc_in, att, sc_out,
                   closed>>

\* wait_data hands the results over (771-779) and more tasks can follow
Collect ==
    /\ pc[P] = "done"
    /\ tmp # <<>>
    /\ tmp' = <<>>
    /\ UNCHANGED <<is_init, n_ranks, cfg, metadata, handles, handle_mutex,
                   file_mutex, open_files, pc, ret, prev, io, how, bcasts,
                   env, files, queue, thr, opened, sc_in, att, sc_out, closed>>

\* pool threads running time-axis tasks on the cache while the pipeline's
\* thread is in execute or runs a task itself
NextThreads ==
    \/ \E t \in Threads :
          \/ \E i \in 1 .. MaxFiles : StartTask(t, i)
          \/ RvRead(t)
          \/ RvReturn(t)
          \/ Cache(t)
    \/ Execute(1)
    \/ Collect

\* the initialized cache of a data set with MaxSteps steps in every file
InitThreads ==
    /\ InitCache
    /\ metadata[P]["step_count"] = [i \in 1 .. MaxFiles |-> MaxSteps]

SpecThreads == InitThreads /\ [][NextThreads]_vars

\* fair scheduling and library calls that return: a thread inside a task or
\* inside execute takes its next step, and a thread that waits for a mutex
\* that is free again and again gets it
Running(t) ==
    \/ GhFind(t)
    \/ GhOpen(t)
    \/ ChDelete(t)
    \/ RvRead(t)
    \/ RvReturn(t)
    \/ ExRead(t)
    \/ ExReturn(t)
FairThreads ==
    \A t \in Threads :
        /\ WF_vars(Running(t))
        /\ SF_vars(GhLock(t))
        /\ SF_vars(ChLock(t))
        /\ SF_vars(ExLock(t))
SpecThreadsFair == SpecThreads /\ FairThreads

\* one thread of a pipeline that asks for any arrays on any extent
ExecuteAny(t) ==
    \/ \E rq \in Requests(metadata[P]) : StartExec(t, rq)
    \/ ExLock(t)
    \/ ExRead(t)
    \/ ExReturn(t)

NextExec ==
    \/ GhLock(1)
    \/ GhFind(1)
    \/ GhOpen(1)
    \/ ExecuteAny(1)

SpecExec == InitCache /\ [][NextExec]_vars

\* the file lists initialize_handles can be given
FileLists == UNION {[1 .. n -> AllFiles] : n \in 0 .. MaxFiles}
\* initialize_handles(files) (206-214) on the cache as it is: clear_handles
\* closes every handle and wipes the map, then every name gets an entry
Initialize(fs) ==
    /\ \A t \in Threads : Idle(t)
    /\ handles' = Set(handles, P, initialize_handles(fs))
    /\ open_files' = Set(open_files, P, ClosedAll(P))
    /\ closed' = Set(closed, P, HandlesOf(P))
    /\ files' = fs
    /\ opened' = NoOpens
    /\ UNCHANGED <<is_init, n_ranks, cfg, metadata, handle_mutex, file_mutex,
                   pc, ret, prev, io, how, bcasts, env, queue, tmp, thr,
                   sc_in, att, sc_out>>

\* ~teca_cf_reader (379-382): clear_handles closes every handle and wipes
\* the map; the reader is gone after it
Destruct ==
    /\ pc[P] = "done"
    /\ \A t \in Threads : Idle(t)
    /\ handles' = Set(handles, P, clear_handles_map)
    /\ open_files' = Set(open_files, P, ClosedAll(P))
    /\ closed' = Set(closed, P, HandlesOf(P))
    /\ pc' = Set(pc, P, "destroyed")
    /\ UNCHANGED <<is_init, n_ranks, cfg, metadata, handle_mutex, file_mutex,
                   ret, prev, io, how, bcasts, env, files, queue, tmp, thr,
                   opened, sc_in, att, sc_out>>

\* threads on an initialized cache of a reader that is destroyed in the end
NextLife == NextCache \/ Destruct

SpecLife == InitCache /\ [][NextLife]_vars

\* threads on a cache that is initialized again between their calls
NextInit ==
    \/ \E t \in Threads :
          \/ \E f \in AllFiles : StartGet(t, f) \/ StartClose(t, f)
          \/ Cache(t)
    \/ \E fs \in FileLists : Initialize(fs)

SpecInit == InitCache /\ [][NextInit]_vars

\* the step-to-file scan on its own
InitScan ==
    /\ is_init = FALSE
    /\ n_ranks = 1
    /\ InitReader(DefaultConfig)
    /\ sc_in \in ScanInputs
    /\ sc_out = NotScanned
    /\ NoTrim

\* the reading of one character attribute on its own, for any value
InitTrim ==
    /\ is_init = FALSE
    /\ n_ranks = 1
    /\ InitReader(DefaultConfig)
    /\ NoScan
    /\ att \in [value : AttValues, read : {FALSE}, text : {<<>>}]

SpecTrim == InitTrim /\ [][ReadAtt]_vars

SpecScan == InitScan /\ [][ScanStep]_vars


\* ================================================================ properties
\* the open files of rank p that came from the cache's get_handle, for file f
CacheOpens(p, f) ==
    {o \in open_files[p] : o.file = f /\ o.by = "get_handle"}

\* C1: whatever the interleaving of get_handle, close_handle and execute on
\* an initialized cache, a file has at most one open handle in the cache,
\* the handle an entry holds is an open file of that basename, and between
\* two releases of a file it is opened at most once and every acquirer gets
\* the same id.
C1_OneHandlePerFile ==
    \A f \in AllFiles :
        /\ Cardinality(CacheOpens(P, f)) <= 1
        /\ opened[f].n <= 1
        /\ Cardinality(opened[f].ids) <= 1
        /\ f \in DOMAIN handles[P] /\ handle_mutex[P] = 0 =>
              /\ handles[P][f].handle # 0 =>
                    CacheOpens(P, f) =
                        {[fd |-> handles[P][f].handle, file |-> f,
                          by |-> "get_handle"]}
              /\ handles[P][f].handle = 0 => CacheOpens(P, f) = {}
\* two threads are in execute's reads on the same file with the one handle
C1_Witness ==
    \E f \in AllFiles :
        /\ thr[1].op = "exec" /\ thr[1].pc = "ex_lock" /\ thr[1].file = f
        /\ thr[2].op = "exec" /\ thr[2].pc = "ex_read" /\ thr[2].file = f
        /\ thr[1].file_id = thr[2].file_id
        /\ thr[1].file_id = handles[P][f].handle
        /\ opened[f].n = 1

\* C2: when get_output_metadata returns from a failed phase, what it
\* returned is empty, the cached record is empty and the handle cache is
\* empty.
C2_FailureClears ==
    \A p \in AllRanks :
        pc[p] = "done" /\ how[p] = "failed" =>
            /\ ret[p] = EmptyMd
            /\ metadata[p] = EmptyMd
            /\ handles[p] = NoHandles

\* C3: the second of two calls of get_output_metadata with no configuration
\* change in between returns what the first one returned, and reads no file
\* when the first one returned a record.
C3_SecondCallEqual ==
    \A p \in AllRanks :
        pc[p] = "done" /\ prev[p].valid =>
            /\ ret[p] = prev[p].md
            /\ prev[p].md # EmptyMd => ~io[p]

\* C4: a non-empty record returned by get_output_metadata has step_count,
\* number_of_time_steps and the time axis, and the sum of step_count, the
\* number of time steps and the length of the time axis are equal.
C4_StepsAddUp ==
    \A p \in AllRanks :
        pc[p] = "done" /\ ret[p] # EmptyMd =>
            /\ {"step_count", "number_of_time_steps", "coordinates"}
                   \subseteq DOMAIN ret[p]
            /\ Sum(ret[p]["step_count"]) = ret[p]["number_of_time_steps"]
            /\ ret[p]["number_of_time_steps"] =
                   Len(ret[p]["coordinates"].t.data)

\* C5: a non-empty record returned by get_output_metadata that lists the
\* files has one step count per file, whether or not t_axis_variable is set.
C5_OneCountPerFile ==
    \A p \in AllRanks :
        pc[p] = "done" /\ ret[p] # EmptyMd /\ Has(ret[p], "files") =>
            /\ Has(ret[p], "step_count")
            /\ Len(ret[p]["files"]) = Len(ret[p]["step_count"])

\* the time axes of the files fs, of the lengths c, one after the other
RECURSIVE Concatenated(_, _, _)
Concatenated(fs, c, i) ==
    IF i = 0 THEN <<>>
    ELSE Concatenated(fs, c, i - 1) \o TimeOf(fs[i], c[i])
\* the tasks all returned an array
AllRead == \A k \in DOMAIN tmp : ~tmp[k].var.null
\* the result the task with id i returned
ResultOf(i) == CHOOSE r \in {tmp[k] : k \in DOMAIN tmp} : r.id = i

\* C6: when every file's task returned its time array, in whatever order the
\* tasks completed, the assembled time axis is the files' arrays one after
\* the other in file order, and step_count[i] is the length of file i's.
C6_FileOrder ==
    \A p \in AllRanks :
        (/\ pc[p] = "done" /\ how[p] = "assembled"
         /\ cfg[p].t_axis_variable # ""
         /\ AllRead) =>
            LET md == ret[p]
                fs == md["files"]
                c == md["step_count"]
            IN  /\ Len(tmp) = Len(fs)
                /\ Len(c) = Len(fs)
                /\ \A i \in DOMAIN fs :
                      /\ ResultOf(i).var.data = TimeOf(fs[i], c[i])
                /\ md["coordinates"].t.data = Concatenated(fs, c, Len(fs))
\* the second file's task completed first, and both files hold a step
C6_Witness ==
    /\ pc[0] = "done" /\ how[0] = "assembled"
    /\ cfg[0].t_axis_variable # ""
    /\ AllRead
    /\ Len(tmp) = 2
    /\ tmp[1].id = 2 /\ tmp[2].id = 1
    /\ Len(tmp[1].var.data) = 1 /\ Len(tmp[2].var.data) = 1
    /\ Len(ret[0]["coordinates"].t.data) = 2

\* C7: a rank that returns from a metadata phase it entered with MPI active
\* and no cached record took part in the broadcast of the length and then
\* in the broadcast of the bytes, or only in that of the length when that
\* broadcast reported an error to it.
C7_TwoBroadcasts ==
    \A p \in Ranks :
        is_init /\ pc[p] = "done" /\ how[p] \in {"assembled", "received",
                                                 "failed"} =>
            \/ bcasts[p] = <<"len", "bytes">>
            \/ bcasts[p] = <<"len">> /\ how[p] = "failed"

\* every rank of the group has returned from its metadata phase
AllCompleted == \A p \in Ranks : pc[p] = "done" /\ how[p] # "none"
\* rank p holds the coordinator's record and a handle cache with one entry
\* per file of the record, each with a mutex and without a handle
SameAsCoordinator(p) ==
    /\ metadata[p] = metadata[RootRank]
    /\ Has(metadata[p], "files")
    /\ DOMAIN handles[p] =
           {metadata[p]["files"][i] : i \in DOMAIN metadata[p]["files"]}
    /\ \A f \in DOMAIN handles[p] :
           handles[p][f].mutex = 1 /\ handles[p][f].handle = 0

C9_SetModifiedInvalidates ==
    [][\A p \in Ranks :
          /\ (pc[p] \in {"idle", "done"} /\ pc'[p] = "idle"
                /\ thr' = thr) =>
                /\ metadata'[p] = EmptyMd
                /\ handles'[p] = NoHandles
                /\ \A o \in open_files'[p] : o.by # "get_handle"
                /\ closed'[p] = HandlesOf(p)
          /\ (pc[p] = "idle" /\ pc'[p] # "idle") =>
                how'[p] = "running" /\ pc'[p] = "enumerate"]_vars
\* set_modified has just closed a handle that execute had left open
C9_Witness ==
    /\ pc[0] = "idle" /\ how[0] = "none"
    /\ closed[0] # {}
    /\ metadata[0] = EmptyMd /\ handles[0] = NoHandles

\* C10: for a step_count list, zero entries allowed, and a time_step below
\* its sum, the scan yields a file idx and a step offs inside it: the counts
\* before idx plus offs is time_step, and offs is below step_count[idx]; the
\* last time step yields the last file that holds steps and its last step.
C10_ScanResolves ==
    LET c == sc_in.step_count
        ts == sc_in.time_step
        idx == sc_out.idx
        offs == sc_out.offs
    IN  sc_out # NotScanned /\ ts < Sum(c) =>
            /\ idx + 1 \in DOMAIN c
            /\ Sum(SubSeq(c, 1, idx)) + offs = ts
            /\ 0 <= offs /\ offs < c[idx + 1]
            /\ ts = Sum(c) - 1 =>
                  /\ \A j \in DOMAIN c : j > idx + 1 => c[j] = 0
                  /\ offs = c[idx + 1] - 1
\* the last step of a list with an empty file in front and one at the end
C10_Witness ==
    /\ sc_out # NotScanned
    /\ Len(sc_in.step_count) = 3
    /\ sc_in.step_count[1] = 0 /\ sc_in.step_count[2] > 1
    /\ sc_in.step_count[3] = 0
    /\ sc_in.time_step = Sum(sc_in.step_count) - 1
    /\ sc_out.idx = 1

\* the mesh a thread is about to return
Returning(t) == thr[t].op = "exec" /\ thr[t].pc = "ex_return"
\* the number of points of an extent
CountOf(extent) ==
    (extent[2] - extent[1] + 1) * (extent[4] - extent[3] + 1)
        * (extent[6] - extent[5] + 1)

\* C11: every point array attached to a mesh that execute returns holds
\* values, as many as the extent has points, whatever arrays were asked for,
\* whatever extent inside whole_extent, and whatever became of each array.
C11_PointArraysSized ==
    Returning(1) =>
        \A k \in DOMAIN thr[1].exec.points :
            LET a == thr[1].exec.points[k].array
            IN  ~a.null /\ Len(a.data) = CountOf(thr[1].exec.extent)

\* what became of the i-th array of the request of thread t
LogOf(t, i) ==
    {thr[t].exec.log[k] : k \in {j \in DOMAIN thr[t].exec.log :
        thr[t].exec.log[j].kind = "point" /\ thr[t].exec.log[j].i = i}}
\* the i-th array of the request is on the mesh of thread t
OnMesh(t, i) ==
    \E k \in DOMAIN thr[t].exec.points : thr[t].exec.points[k].i = i

\* C12: when execute returns a mesh, each requested array has been dealt
\* with, and it is a point array of the mesh exactly if its attribute lookup,
\* its dimension check and its read all succeeded; a failure for one array
\* stops neither the mesh nor the other arrays.
C12_AttachedIffAllSucceed ==
    Returning(1) =>
        \A i \in DOMAIN thr[1].exec.arrays :
            /\ Cardinality(LogOf(1, i)) = 1
            /\ OnMesh(1, i) <=>
                  \A l \in LogOf(1, i) : l.attrs /\ l.dims /\ l.read = "ok"

\* thread t enters execute in this step
Enters(t) == Idle(t) /\ thr'[t].op = "exec" /\ thr'[t] # thr[t]

\* C13: when the cached metadata lacks coordinates, whole_extent, step_count,
\* root or files (the metadata phase never ran, or it failed), execute
\* returns no mesh, opens no file and leaves every entry of the handle cache
\* as it was.
C13_MissingKeysNoMesh ==
    [][Enters(1) /\ ~(Required \subseteq DOMAIN metadata[P]) =>
          /\ thr'[1].pc = "idle" /\ thr'[1].rc = -1
          /\ UNCHANGED <<handles, open_files, handle_mutex, file_mutex>>]_vars
\* execute has reported a missing key and returned no mesh, the metadata phase
\* has failed and left a record without the keys
C13_Witness ==
    /\ thr[1].pc = "idle" /\ thr[1].op = "exec" /\ thr[1].rc = -1
    /\ thr[1].exec.log = Reported("coordinates")
    /\ pc[P] = "done" /\ how[P] = "failed" /\ metadata[P] # EmptyMd
    /\ ~(Required \subseteq DOMAIN metadata[P])

\* thread t is in a library read of execute
Reading(t) == thr[t].op = "exec" /\ thr[t].pc = "ex_read"
\* thread t is in execute with what get_handle gave it
InReads(t) == thr[t].op = "exec" /\ thr[t].pc \in {"ex_lock", "ex_read"}

\* C14: two threads in execute on the same file are never both in a library
\* read of it: a thread that reads holds the mutex of that file's entry, and
\* get_handle gave both threads that same mutex.
C14_ReadsSerialized ==
    \A t \in Threads, u \in Threads :
        /\ Reading(t) =>
              /\ thr[t].file_mutex = thr[t].file
              /\ file_mutex[P][thr[t].file] = t
        /\ InReads(t) /\ InReads(u) /\ thr[t].file = thr[u].file =>
              /\ thr[t].file_mutex = thr[u].file_mutex
              /\ Reading(t) /\ Reading(u) => t = u
\* one thread reads a mesh variable of a file while the other waits for the
\* mutex of the same file
C14_Witness ==
    /\ Reading(1) /\ Head(thr[1].exec.todo).kind = "point"
    /\ thr[2].op = "exec" /\ thr[2].pc = "ex_lock"
    /\ thr[2].file = thr[1].file
    /\ ~CanLock(file_mutex[P][thr[2].file_mutex])

\* the step changes the handle map of the rank
MapChanges == handles'[P] # handles[P]
\* the step is taken by a thread that holds the cache-wide mutex
LockedStep ==
    \E t \in Threads : handle_mutex[P] = t /\ thr'[t] # thr[t]

\* C15: every change of the handle map (the entries initialize inserts, the
\* handle get_handle stores, the handle close_handle clears, the wipe of
\* clear) is made by a thread that holds the cache-wide mutex.
C15_MutationsLocked == [][MapChanges => LockedStep]_vars

\* the length of a coordinate array of a record, -1 if the array is null
LenOf(md, a) ==
    IF md["coordinates"][a].null THEN -1 ELSE Len(md["coordinates"][a].data)
\* the record holds the whole extent of its coordinate arrays
ExtentOfAxes(md) ==
    /\ {"coordinates", "whole_extent"} \subseteq DOMAIN md
    /\ md["whole_extent"] = <<0, LenOf(md, "x") - 1, 0, LenOf(md, "y") - 1,
                              0, LenOf(md, "z") - 1>>

\* C16: every non-empty record get_output_metadata returns has whole_extent
\* = (0, len(x)-1, 0, len(y)-1, 0, len(z)-1); an axis whose variable is not
\* set has length 1 and the pair (0, 0).
C16_WholeExtentOfAxes ==
    pc[P] = "done" /\ ret[P] # EmptyMd =>
        /\ ExtentOfAxes(ret[P])
        /\ cfg[P].y_axis_variable = "" =>
              LenOf(ret[P], "y") = 1 /\ ret[P]["whole_extent"][4] = 0
        /\ cfg[P].z_axis_variable = "" =>
              LenOf(ret[P], "z") = 1 /\ ret[P]["whole_extent"][6] = 0

\* the scan was given a time step at or past the number of time steps
PastTheEnd ==
    /\ sc_out # NotScanned
    /\ sc_in.step_count # <<>>
    /\ sc_in.time_step >= Sum(sc_in.step_count)

\* C17: for a time_step at or past number_of_time_steps the scan does not
\* fail and the step is clamped: it yields the last file, and an offset
\* that is a step of that file (offs < step_count[idx]).
C17_PastTheEndClamped ==
    PastTheEnd =>
        /\ sc_out.idx = Len(sc_in.step_count) - 1
        /\ 0 <= sc_out.offs
        /\ sc_out.offs < sc_in.step_count[sc_out.idx + 1]

\* thread t leaves the open of get_handle in this step without a new open
\* file: nc_open has failed
OpenFails(t) ==
    /\ thr[t].pc = "gh_open" /\ thr'[t].pc # "gh_open"
    /\ open_files'[P] = open_files[P]
\* thread t finds the entry of its file without a handle in this step
FindsNone(t) ==
    /\ thr[t].pc = "gh_find" /\ thr'[t].pc # "gh_find"
    /\ handles[P][thr[t].file].handle = 0

\* C18: when the open of get_handle fails, the caller gets an error, the
\* entry keeps no handle and no entry changes; a get_handle that finds the
\* entry without a handle opens the file, so a later call tries again.
C18_OpenFailureRetried ==
    [][\A t \in Threads :
          /\ OpenFails(t) =>
                /\ thr'[t].pc = "idle" /\ thr'[t].rc = -1
                /\ handles' = handles
                /\ handles[P][thr[t].file].handle = 0
          /\ FindsNone(t) => thr'[t].pc = "gh_open"]_vars
\* an open of a file has failed, and a later get_handle of the same file has
\* opened it
C18_Witness ==
    \E f \in AllFiles :
        /\ opened[f].failed /\ opened[f].n = 1
        /\ handles[P][f].handle # 0
        /\ thr[1].pc = "idle" /\ thr[1].rc = -1
        /\ thr[2].pc = "idle" /\ thr[2].rc = 0

\* thread t deletes the handle of its file in this step
Releases(t) == thr[t].pc = "ch_delete" /\ thr'[t].pc # "ch_delete"

\* C19: close_handle(file) closes the handle of the entry if it has one and
\* leaves the entry without a handle; the entry and its mutex stay, no other
\* entry and no other open file changes, and with no handle nothing changes.
C19_ReleaseClosesOne ==
    [][\A t \in Threads : Releases(t) =>
          LET f == thr[t].file
              h == handles[P][f].handle
          IN  /\ DOMAIN handles'[P] = DOMAIN handles[P]
              /\ handles'[P][f] = [mutex |-> handles[P][f].mutex,
                                    handle |-> 0]
              /\ \A g \in DOMAIN handles[P] \ {f} :
                    handles'[P][g] = handles[P][g]
              /\ file_mutex' = file_mutex
              /\ open_files'[P] = {o \in open_files[P] : o.fd # h}
              /\ h = 0 => handles' = handles /\ open_files' = open_files
              /\ thr'[t].rc = 0]_vars
\* a thread has released a file that the other thread holds a handle of:
\* the entry is there without a handle, and the file is closed
C19_Witness ==
    \E f \in AllFiles :
        /\ InReads(1) /\ thr[1].file = f /\ thr[1].file_id # 0
        /\ thr[2].pc = "idle" /\ thr[2].op = "none" /\ thr[2].rc = 0
        /\ f \in DOMAIN handles[P] /\ handles[P][f] = NewEntry
        /\ CacheOpens(P, f) = {}

\* the cache is initialized in this step: no thread moves
Initializes ==
    /\ \A t \in Threads : Idle(t)
    /\ thr' = thr
    /\ handles' # handles \/ files' # files \/ open_files' # open_files
\* the names in a list of files
NamesIn(fs) == {fs[i] : i \in DOMAIN fs}

\* C20: after initialize_handles(files), whatever the cache held before, the
\* keys of the map are the names in files, every entry has a mutex and no
\* handle, and every handle that was open before is closed; no other open
\* file is closed.
C20_InitializeResets ==
    [][Initializes =>
          /\ DOMAIN handles'[P] = NamesIn(files')
          /\ \A f \in DOMAIN handles'[P] : handles'[P][f] = NewEntry
          /\ \A o \in open_files[P] :
                o \in open_files'[P] <=> o.fd \notin HandlesOf(P)
          /\ open_files'[P] \subseteq open_files[P]]_vars
\* the cache has been initialized with one file while it held an open handle
\* of each of two files: both are closed, the map has the one entry
C20_Witness ==
    /\ Cardinality(closed[P]) = 2
    /\ files = <<FileNames[2]>>
    /\ handles[P] = initialize_handles(files)
    /\ \A o \in open_files[P] : o.by # "get_handle"

\* the reader has been destroyed
Destroyed == pc[P] = "destroyed"

\* C21: clear_handles closes every handle the cache holds and leaves the map
\* empty, and so does the destruction of the reader: whatever get_handle,
\* close_handle and execute did before, no file opened through the cache is
\* open after it.
C21_DestructionClosesAll ==
    Destroyed =>
        /\ handles[P] = NoHandles
        /\ \A f \in AllFiles : CacheOpens(P, f) = {}
        /\ \A o \in open_files[P] : o.fd \notin closed[P]
\* the reader was destroyed while its cache held an open handle of each of
\* its two files, after an execute that returned a mesh
C21_Witness ==
    /\ Destroyed
    /\ Cardinality(closed[P]) = 2
    /\ thr[1].op = "exec" /\ thr[1].rc = 0

\* thread t is a time-axis task at its library calls on the handle it got
TaskReading(t) == thr[t].op = "task" /\ thr[t].pc = "rv_read"

\* C22: a time-axis task makes its library calls on the handle (the queries
\* of the dimension and of the variable, and the read) while it holds the
\* mutex of the file that get_handle returned.
C22_TaskReadsLocked ==
    \A t \in Threads :
        TaskReading(t) =>
            /\ thr[t].file_mutex = thr[t].file
            /\ file_mutex[P][thr[t].file] = t

\* thread t holds the cache-wide mutex, a per-file mutex
HoldsCache(t) == handle_mutex[P] = t
HoldsFile(t) == \E f \in AllFiles : file_mutex[P][f] = t

\* C23: no thread holds the cache-wide mutex and a per-file mutex at once:
\* the cache-wide mutex is held only inside get_handle and close_handle, a
\* per-file mutex only inside a read of execute, after get_handle has
\* returned and with no call to the cache.
C23_NeverBothMutexes ==
    \A t \in Threads :
        /\ ~(HoldsCache(t) /\ HoldsFile(t))
        /\ HoldsCache(t) => thr[t].pc \in {"gh_find", "gh_open", "ch_delete"}
        /\ HoldsFile(t) => Reading(t)
\* one thread is in a read of execute with the mutex of its file while the
\* other is inside get_handle for the same file with the cache-wide mutex
C23_Witness ==
    /\ Reading(1) /\ HoldsFile(1)
    /\ thr[2].pc = "gh_find" /\ HoldsCache(2)
    /\ thr[2].file = thr[1].file

\* the coordinator is inside get_output_metadata, assembling the record
Assembling == pc[P] \notin {"idle", "done"}

\* C24: at every point of the assembly of the metadata on the coordinator,
\* the files the reader has open, through the handle cache or not, are at
\* most as many as the worker pool has threads.
C24_OpenFilesBounded ==
    Assembling => Cardinality(open_files[P]) <= NumThreads

\* thread t is a task about to hand over its result, having had a handle
TaskDone(t) ==
    thr[t].op = "task" /\ thr[t].pc = "rv_return" /\ thr[t].file_id # 0
\* wait_data has every task's result
AllTasksDone ==
    pc[P] = "wait" /\ queue = <<>> /\ Len(tmp) = Len(files)
      /\ \A t \in Threads : Idle(t)

\* C25: a time-axis task that got a handle has released its file before it
\* produces its result, whether its queries and its read succeeded or not;
\* when the wait for all tasks returns, no entry of the cache holds a handle.
C25_TasksRelease ==
    /\ \A t \in Threads :
          TaskDone(t) =>
              /\ handles[P][thr[t].file].handle = 0
              /\ CacheOpens(P, thr[t].file) = {}
    /\ AllTasksDone =>
          /\ HandlesOf(P) = {}
          /\ \A f \in AllFiles : CacheOpens(P, f) = {}
\* two tasks are about to hand over their results, one after a failed read
\* and one after a good one; both had a handle
C25_Witness ==
    /\ TaskDone(1) /\ thr[1].var.null
    /\ TaskDone(2) /\ ~thr[2].var.null
    /\ HandlesOf(P) = {}

\* rank q waits in the length broadcast while the coordinator assembles
Blocked(q) == pc[q] = "recv_len" /\ how[RootRank] = "running"

\* C26: with MPI active, a rank other than the coordinator that waits in the
\* length broadcast while the coordinator assembles the record is eventually
\* released and its metadata phase returns, whatever the outcome of the
\* assembly.
C26_PeersReleased ==
    \A q \in AllRanks : (q # RootRank /\ Blocked(q)) ~> (pc[q] = "done")

\* the tasks are through, the first file gave its time axis and a later file
\* gave none, and the assembler went on from wait_data
LaterFileFailed ==
    /\ pc[P] = "crashed" \/ (pc[P] = "done" /\ how[P] = "assembled")
    /\ Len(files) >= 2 /\ Len(tmp) = Len(files)
    /\ ~time_arrays(1).null
    /\ SomeNull(Len(files))

\* C27: when the first file's task returned its time axis and the task of a
\* later file returned no array, the assembler does not use the missing
\* array: the phase returns, either with an empty bag or with a record whose
\* step counts add up to the number of time steps and to the length of the
\* time axis.
C27_NullNeverUsed ==
    LaterFileFailed =>
        /\ pc[P] = "done"
        /\ \/ ret[P] = EmptyMd
           \/ /\ {"step_count", "number_of_time_steps", "coordinates"}
                     \subseteq DOMAIN ret[P]
              /\ Len(ret[P]["step_count"]) = Len(files)
              /\ Sum(ret[P]["step_count"]) = ret[P]["number_of_time_steps"]
              /\ Sum(ret[P]["step_count"]) =
                     Len(ret[P]["coordinates"].t.data)

IssuesRead(t) == thr[t].pc \in {"rv_read", "ex_read"}
\* the id thread t uses is that of an open handle of its file
IdOpen(t) ==
    \E o \in open_files[P] : o.fd = thr[t].file_id /\ o.file = thr[t].file

OpenHandles == {f \in DOMAIN handles[P] : handles[P][f].handle # 0}
\* the files execute has asked get_handle for, and those it got a handle of
Resolved == {f \in AllFiles : opened[f].ids # {} \/ opened[f].failed}
ResolvedAndOpened == {f \in AllFiles : opened[f].ids # {}}
\* a step of execute leaves the cached record alone; in the cache it changes
\* at most the entry of the file of its time step, from no handle to an open
\* file of that name; no entry comes or goes and no file is closed
ExecuteFrame ==
    /\ metadata' = metadata
    /\ DOMAIN handles'[P] = DOMAIN handles[P]
    /\ open_files[P] \subseteq open_files'[P]
    /\ \A f \in DOMAIN handles[P] :
          \/ handles'[P][f] = handles[P][f]
          \/ /\ \E t \in Threads : thr[t].op = "exec" /\ thr[t].file = f
             /\ handles[P][f].handle = 0
             /\ handles'[P][f].mutex = handles[P][f].mutex
             /\ \E o \in open_files'[P] \ open_files[P] :
                   o.fd = handles'[P][f].handle /\ o.file = f

\* C30: execute never changes the cached record; it changes the cache only
\* at the entry of the file its time step resolves to, whose handle goes
\* from absent to open or stays; it closes nothing and touches no other
\* entry; after any sequence of execute calls the files with an open handle
\* are the files resolved so far.
C30_OpenAreResolved ==
    [][ExecuteFrame /\ (Idle(1)' => OpenHandles' = Resolved')]_vars
\* C30, amended: the same, and after any sequence of execute calls the files
\* with an open handle are the files resolved so far whose open succeeded.
C30_OpenAreResolvedAndOpened ==
    [][ExecuteFrame /\ (Idle(1)' => OpenHandles' = ResolvedAndOpened')]_vars
\* execute has returned a mesh and every file has been resolved and opened
\* once
C30_Witness ==
    /\ Idle(1) /\ thr[1].op = "exec" /\ thr[1].rc = 0
    /\ OpenHandles = AllFiles
    /\ \A f \in AllFiles : opened[f].n = 1

\* the name the record gives to an axis is that of its configured variable
NamedAfter(name, axis_variable) == axis_variable # "" => name = axis_variable

\* C31: in the coordinates of an assembled record, y_variable, z_variable
\* and t_variable each equal the configured y_axis_variable, z_axis_variable
\* and t_axis_variable when that one is set, whatever the other two are.
C31_AxisNames ==
    \A p \in AllRanks :
        "coordinates" \in DOMAIN metadata[p] =>
            LET co == metadata[p]["coordinates"]
            IN  /\ NamedAfter(co.y_variable, cfg[p].y_axis_variable)
                /\ NamedAfter(co.z_variable, cfg[p].z_axis_variable)
                /\ NamedAfter(co.t_variable, cfg[p].t_axis_variable)

\* what crtrim may take off the end of a value
Whitespace == {Space, Tab, CarriageReturn, Newline}
\* text is value without a suffix of whitespace
TrimmedFrom(text, value) ==
    /\ Len(text) <= Len(value)
    /\ text = SubSeq(value, 1, Len(text))
    /\ \A k \in (Len(text) + 1) .. Len(value) : value[k] \in Whitespace

\* C32: for an attribute value of any length, whitespace only or not, the
\* text kept after crtrim does not end in a space, tab, carriage return or
\* newline, and it is the value without a suffix of such characters.
C32_RightTrimmed ==
    att.read =>
        /\ att.text # <<>> => att.text[Len(att.text)] \notin Whitespace
        /\ TrimmedFrom(att.text, att.value)
====
